---------------------------- MODULE Spec2Model ----------------------------
(***************************************************************************)
(* SIMDBinaryPacking (headers/simdbinarypacking.h): encodeArray and        *)
(* decodeArray as state machines over word streams.                        *)
(*                                                                         *)
(* A 32-bit word is the pair <<hi, lo>> of its two 16-bit halves, so that  *)
(* every value of [0, 2^32) is representable and every shift, cast and     *)
(* mask of the source is computed on bits.                                 *)
(*                                                                         *)
(* The source holds two bodies for the full-block loop of encodeArray,     *)
(* selected by the macro EJK.  The EJK body declares `final` inside the    *)
(* for statement and uses it after the loop, so only the #else body builds;*)
(* that is the one modelled here.                                          *)
(***************************************************************************)
EXTENDS Integers, Sequences, FiniteSets, TLC

\* ------------------------------------------------------------ constants
CookiePadderValue == 123456
MiniBlockSize == 128
HowManyMiniBlocks == 16
BlockSize == MiniBlockSize
BlockWords == HowManyMiniBlocks * MiniBlockSize

\* ------------------------------------------------------------ bounds
\* The input lengths tried, in miniblocks: 0 .. MaxSmall (a partial block
\* only), HowManyMiniBlocks .. MaxMiniBlocks (one full block, then a partial
\* one) and two full blocks; and 0 .. MaxSmall miniblocks plus OddRest words
\* (no multiple of the miniblock size).  Streams longer than MaxMiniBlocks
\* miniblocks reach the decoder only as written and at the alignment they
\* were written at, or with a padding word replaced.
MaxSmall == 2
MaxMiniBlocks == 17
OddRest == 64
\* Input contents: patterns 0 .. MaxPattern (see Gen).
MaxPattern == 4

\* ------------------------------------------------------------ 32-bit words
Half == 2^16
Pow2(n) == 2^n
Min(a, b) == IF a < b THEN a ELSE b
Max(a, b) == IF a > b THEN a ELSE b

\* static_cast<uint32_t>(n) for a size n below 2^31
U32(n) == <<(n \div Half) % Half, n % Half>>
\* the number a word stands for (words below 2^31 only)
ToNat(w) == w[1] * Half + w[2]
ZeroWord == <<0, 0>>
CookiePadder == U32(CookiePadderValue)

\* n <= 16 bits of word w, starting at bit `from` (from + n <= 32)
Field(w, from, n) ==
    IF n = 0 THEN 0
    ELSE IF from >= 16 THEN (w[1] \div Pow2(from - 16)) % Pow2(n)
    ELSE ((w[2] \div Pow2(from)) + (w[1] % Pow2(from)) * Pow2(16 - from)) % Pow2(n)

\* w << k and w >> k on uint32_t, 0 <= k < 32
Shl(w, k) ==
    IF k < 16
    THEN <<((w[1] * Pow2(k)) + (w[2] \div Pow2(16 - k))) % Half, (w[2] * Pow2(k)) % Half>>
    ELSE <<(w[2] * Pow2(k - 16)) % Half, 0>>
Shr(w, k) ==
    IF k < 16
    THEN <<w[1] \div Pow2(k), (w[2] \div Pow2(k)) + (w[1] % Pow2(k)) * Pow2(16 - k)>>
    ELSE <<0, w[1] \div Pow2(k - 16)>>

RECURSIVE OrNat(_, _)
OrNat(a, b) ==
    IF a = 0 THEN b
    ELSE IF b = 0 THEN a
    ELSE Max(a % 2, b % 2) + 2 * OrNat(a \div 2, b \div 2)
\* a | b on uint32_t
Or(a, b) == <<OrNat(a[1], b[1]), OrNat(a[2], b[2])>>

\* static_cast<uint8_t>(w), as a number
U8(w) == w[2] % 256



\* ------------------------------------------------------------ helpers (util.h)
\* needPaddingTo128Bits(p): the address p, counted in words, is not a
\* multiple of 16 bytes
needPaddingTo128Bits(addr) == addr % 4 # 0

\* checkifdivisibleby(length, BlockSize): TRUE when the check passes, FALSE
\* when it throws.  The helper's body is in util.h; the lengths it lets pass
\* are the positive multiples of x, as the codec's description states them.
checkifdivisibleby(a, x) == a > 0 /\ a % x = 0

\* gccbits(v): the bit length of a word, 0 for 0
RECURSIVE BitLenNat(_)
BitLenNat(n) == IF n = 0 THEN 0 ELSE 1 + BitLenNat(n \div 2)
gccbits(w) == IF w[1] # 0 THEN 16 + BitLenNat(w[1]) ELSE BitLenNat(w[2])

\* maxbits(begin, end) over the n words after s[from]: the bit length of the
\* largest of them, 0 when all are zero
maxbits(s, from, n) ==
    LET lens == {gccbits(s[from + i]) : i \in 1 .. n} \cup {0}
    IN CHOOSE m \in lens : \A k \in lens : k <= m

\* ------------------------------------------------------------ kernels (simdbitpacking.h)
\* The 128 words of a miniblock are four interleaved lanes of 32 values;
\* lane j holds words j, j+4, j+8, ...  Each lane is packed on its own: value k
\* of the lane takes bits [k*b, (k+1)*b) of the lane's bit stream, and lane
\* word w of the stream is output word 4*w + j.

\* 16 bits, from bit q on, of the packed stream of lane j of the miniblock
\* v[from + 1 .. from + 128] at width b >= 1: the sum, over the values k that
\* overlap the window, of the bits of value k that fall into it
RECURSIVE PackWindow(_, _, _, _, _, _)
PackWindow(v, from, j, b, q, k) ==
    IF k >= MiniBlockSize \div 4 \/ k * b >= q + 16 THEN 0
    ELSE LET lo == Max(q, k * b)
             hi == Min(q + 16, k * b + b)
         IN Field(v[from + 4 * k + j + 1], lo - k * b, hi - lo) * Pow2(lo - q)
            + PackWindow(v, from, j, b, q, k + 1)

\* SIMD_fastpackwithoutmask_32(in, out, bit): the 4 * bit words written
SIMD_fastpackwithoutmask_32(v, from, b) ==
    [o \in 1 .. (MiniBlockSize \div 32) * b |->
        LET j == (o - 1) % 4
            w == (o - 1) \div 4
        IN <<PackWindow(v, from, j, b, 32 * w + 16, (32 * w + 16) \div b),
             PackWindow(v, from, j, b, 32 * w, (32 * w) \div b)>>]

\* n <= 16 bits, from bit pos on, of the stream of lane j stored in
\* s[from + 1 .. from + 4 * b]
StreamField(s, from, j, pos, n) ==
    LET w == pos \div 32
        off == pos % 32
        n1 == Min(n, 32 - off)
    IN Field(s[from + 4 * w + j + 1], off, n1)
       + (IF n1 < n THEN Field(s[from + 4 * (w + 1) + j + 1], 0, n - n1) * Pow2(n1)
          ELSE 0)

\* SIMD_fastunpack_32(in, out, bit), 0 <= bit <= 32: the 128 words written
SIMD_fastunpack_32(s, from, b) ==
    [t \in 1 .. MiniBlockSize |->
        LET j == (t - 1) % 4
            k == (t - 1) \div 4
        IN <<IF b > 16 THEN StreamField(s, from, j, k * b + 16, b - 16) ELSE 0,
             IF b > 0 THEN StreamField(s, from, j, k * b, Min(b, 16)) ELSE 0>>]

\* ------------------------------------------------------------ inputs
\* the width of miniblock m under the mixed pattern p
MixWidth(p, m) == (7 * m + 3 * p) % 33
\* the word of all ones of width w
Ones(w) == IF w > 16 THEN <<Pow2(w - 16) - 1, Half - 1>> ELSE <<0, Pow2(w) - 1>>
\* w low bits of a scrambled word
Scramble(i, w) ==
    LET h == (i * 40503 + 12345) % Half
        l == (i * 30011 + 7) % Half
    IN IF w > 16 THEN <<h % Pow2(w - 16), l>> ELSE <<0, l % Pow2(w)>>

\* Word i (from 0) of the input of pattern p:
\*   0: all zeros            1: i + 1            2: 0xFFFFFFFF then zeros
\*   3: all 0xFFFFFFFF       4 and up: miniblock m holds scrambled values of
\*                           exactly MixWidth(p, m) bits
Gen(p, i) ==
    CASE p = 0 -> ZeroWord
      [] p = 1 -> U32(i + 1)
      [] p = 2 -> IF i = 0 THEN Ones(32) ELSE ZeroWord
      [] p = 3 -> Ones(32)
      [] OTHER -> LET m == i \div MiniBlockSize
                      w == MixWidth(p, m)
                  IN IF i % MiniBlockSize = (5 * m + p) % MiniBlockSize
                     THEN Ones(w) ELSE Scramble(i, w)

MiniBlockCounts ==
    (0 .. MaxSmall) \cup (HowManyMiniBlocks .. MaxMiniBlocks) \cup {2 * HowManyMiniBlocks}
Lengths ==
    {k * MiniBlockSize : k \in MiniBlockCounts}
    \cup {k * MiniBlockSize + OddRest : k \in 0 .. MaxSmall}


\* ------------------------------------------------------------ state
VARIABLES
    x,        \* the input words handed to encodeArray
    length,   \* its length argument
    obase,    \* address of the encoder's out pointer, in words modulo 4
    out,      \* the words encodeArray has written, from initout on
    ein,      \* input words consumed by the encoder (in - begin)
    eBs,      \* the encoder's Bs[HowManyMiniBlocks]
    ei,       \* the miniblock index i of the running pack loop
    epc,      \* where encodeArray is
    nvalue,   \* the nvalue encodeArray reported (-1: none)
    eerr,     \* the error encodeArray threw ("" : none)
    packAt,   \* history: the offsets (out - initout) at which pack was called
    frames,   \* history: per header written, its offset, its first input
              \* word and the count of miniblocks that follow it
    din,      \* the stream handed to decodeArray
    ibase,    \* address of the decoder's in pointer, in words modulo 4
    dobase,   \* address of the decoder's out pointer, in words modulo 4
    dcur,     \* stream words the decoder is past (in - begin)
    dlen,     \* actuallength
    dout,     \* the decoder's output buffer, from initout on
    dpos,     \* out - initout
    dBs,      \* the decoder's Bs[HowManyMiniBlocks]
    di,       \* the miniblock index i of the running unpack loop
    dpc,      \* where decodeArray is
    dnvalue,  \* the nvalue decodeArray reported (-1: none)
    dret,     \* the cursor decodeArray returned, in - begin (-1: none)
    derr,     \* the error decodeArray threw ("" : none)
    calls,    \* history: the widths the unpack kernel was called with
    damage    \* history: what was changed in the stream before decoding

encVars == <<x, length, obase, out, ein, eBs, ei, epc, nvalue, eerr, packAt, frames>>
decVars == <<din, ibase, dobase, dcur, dlen, dout, dpos, dBs, di, dpc, dnvalue,
             dret, derr, calls, damage>>
vars == <<encVars, decVars>>

ZeroBs == [i \in 1 .. HowManyMiniBlocks |-> 0]

\* the four widths of a header word laid out lowest byte first
HeaderWord_Swapped(Bs, k) ==
    Or(Or(Or(Shl(U32(Bs[4 * k + 4]), 24), Shl(U32(Bs[4 * k + 3]), 16)),
          Shl(U32(Bs[4 * k + 2]), 8)),
       U32(Bs[4 * k + 1]))

\* (Bs[4k] << 24) | (Bs[4k+1] << 16) | (Bs[4k+2] << 8) | Bs[4k+3], k = 0 .. 3
HeaderWord(Bs, k) ==
    Or(Or(Or(Shl(U32(Bs[4 * k + 1]), 24), Shl(U32(Bs[4 * k + 2]), 16)),
          Shl(U32(Bs[4 * k + 3]), 8)),
       U32(Bs[4 * k + 4]))
\* a header of three words
HeaderWords_Three(Bs) == [k \in 1 .. 3 |-> HeaderWord(Bs, k - 1)]


HeaderWords(Bs) == [k \in 1 .. HowManyMiniBlocks \div 4 |-> HeaderWord(Bs, k - 1)]

\* Bs[i] = maxbits(in + i * MiniBlockSize, in + (i + 1) * MiniBlockSize), i < n;
\* the others stay 0
BlockWidths(s, from, n) ==
    [i \in 1 .. HowManyMiniBlocks |->
        IF i <= n THEN maxbits(s, from + (i - 1) * MiniBlockSize, MiniBlockSize) ELSE 0]

\* the length check made after the length word is written
EncReject_AfterPrefix ==
    /\ epc = "start"
    /\ ~checkifdivisibleby(length, BlockSize)
    /\ out' = Append(out, U32(length))
    /\ epc' = "failed"
    /\ eerr' = "InvalidLength"
    /\ UNCHANGED <<x, length, obase, ein, eBs, ei, nvalue, packAt, frames>>
    /\ UNCHANGED decVars

\* ------------------------------------------------------------ encodeArray
\* checkifdivisibleby(length, BlockSize) throws
EncReject ==
    /\ epc = "start"
    /\ ~checkifdivisibleby(length, BlockSize)
    /\ epc' = "failed"
    /\ eerr' = "InvalidLength"
    /\ UNCHANGED <<x, length, obase, out, ein, eBs, ei, nvalue, packAt, frames>>
    /\ UNCHANGED decVars

\* the length word holding the count of miniblocks
EncStart_MiniBlocks ==
    /\ epc = "start"
    /\ checkifdivisibleby(length, BlockSize)
    /\ out' = Append(out, U32(length \div MiniBlockSize))
    /\ epc' = IF needPaddingTo128Bits(obase + Len(out) + 1) THEN "pad" ELSE "blocks"
    /\ UNCHANGED <<x, length, obase, ein, eBs, ei, nvalue, eerr, packAt, frames>>
    /\ UNCHANGED decVars

\* *out++ = static_cast<uint32_t>(length)
EncStart ==
    /\ epc = "start"
    /\ checkifdivisibleby(length, BlockSize)
    /\ out' = Append(out, U32(length))
    /\ epc' = IF needPaddingTo128Bits(obase + Len(out) + 1) THEN "pad" ELSE "blocks"
    /\ UNCHANGED <<x, length, obase, ein, eBs, ei, nvalue, eerr, packAt, frames>>
    /\ UNCHANGED decVars

\* while (needPaddingTo128Bits(out)) *out++ = CookiePadder
EncPad ==
    /\ epc = "pad"
    /\ out' = Append(out, CookiePadder)
    /\ epc' = IF needPaddingTo128Bits(obase + Len(out) + 1) THEN "pad" ELSE "blocks"
    /\ UNCHANGED <<x, length, obase, ein, eBs, ei, nvalue, eerr, packAt, frames>>
    /\ UNCHANGED decVars

\* a full block: the sixteen widths and the four header words
EncHeader ==
    /\ epc = "blocks"
    /\ ein + HowManyMiniBlocks * MiniBlockSize <= length
    /\ LET Bs == BlockWidths(x, ein, HowManyMiniBlocks)
       IN /\ eBs' = Bs
          /\ out' = out \o HeaderWords(Bs)
    /\ frames' = Append(frames, [hdr |-> Len(out), first |-> ein, n |-> HowManyMiniBlocks])
    /\ ei' = 0
    /\ epc' = "pack"
    /\ UNCHANGED <<x, length, obase, ein, nvalue, eerr, packAt>>
    /\ UNCHANGED decVars

\* one turn of the pack loop of a full block
EncPack ==
    /\ epc = "pack"
    /\ out' = out \o SIMD_fastpackwithoutmask_32(x, ein + ei * MiniBlockSize, eBs[ei + 1])
    /\ packAt' = packAt \cup {Len(out)}
    /\ IF ei + 1 < HowManyMiniBlocks
       THEN /\ ei' = ei + 1
            /\ UNCHANGED <<ein, epc>>
       ELSE /\ ei' = 0
            /\ ein' = ein + HowManyMiniBlocks * MiniBlockSize
            /\ epc' = "blocks"
    /\ UNCHANGED <<x, length, obase, eBs, nvalue, eerr, frames>>
    /\ UNCHANGED decVars

\* the trailing partial block: howmany widths, the rest zero, four header words
EncTailHeader ==
    /\ epc = "blocks"
    /\ ~(ein + HowManyMiniBlocks * MiniBlockSize <= length)
    /\ ein < length
    /\ LET howmany == (length - ein) \div MiniBlockSize
           Bs == BlockWidths(x, ein, howmany)
       IN /\ eBs' = Bs
          /\ out' = out \o HeaderWords(Bs)
          /\ frames' = Append(frames, [hdr |-> Len(out), first |-> ein, n |-> howmany])
          /\ epc' = IF howmany > 0 THEN "tailpack" ELSE "ret"
    /\ ei' = 0
    /\ UNCHANGED <<x, length, obase, ein, nvalue, eerr, packAt>>
    /\ UNCHANGED decVars

\* one turn of the pack loop of the partial block
EncTailPack ==
    /\ epc = "tailpack"
    /\ out' = out \o SIMD_fastpackwithoutmask_32(x, ein + ei * MiniBlockSize, eBs[ei + 1])
    /\ packAt' = packAt \cup {Len(out)}
    /\ LET howmany == (length - ein) \div MiniBlockSize
       IN IF ei + 1 < howmany
          THEN /\ ei' = ei + 1
               /\ UNCHANGED <<ein, epc>>
          ELSE /\ ei' = 0
               /\ ein' = ein + howmany * MiniBlockSize
               /\ epc' = "ret"
    /\ UNCHANGED <<x, length, obase, eBs, nvalue, eerr, frames>>
    /\ UNCHANGED decVars

\* nvalue counted in bytes
EncReturn_Bytes ==
    /\ \/ epc = "ret"
       \/ /\ epc = "blocks"
          /\ ~(ein + HowManyMiniBlocks * MiniBlockSize <= length)
          /\ ~(ein < length)
    /\ nvalue' = 4 * Len(out)
    /\ epc' = "done"
    /\ UNCHANGED <<x, length, obase, out, ein, eBs, ei, eerr, packAt, frames>>
    /\ UNCHANGED decVars

\* nvalue = out - initout
EncReturn ==
    /\ \/ epc = "ret"
       \/ /\ epc = "blocks"
          /\ ~(ein + HowManyMiniBlocks * MiniBlockSize <= length)
          /\ ~(ein < length)
    /\ nvalue' = Len(out)
    /\ epc' = "done"
    /\ UNCHANGED <<x, length, obase, out, ein, eBs, ei, eerr, packAt, frames>>
    /\ UNCHANGED decVars

EncInit ==
    /\ length \in Lengths
    /\ \E p \in 0 .. MaxPattern : x = [i \in 1 .. length |-> Gen(p, i - 1)]
    /\ obase \in 0 .. 3
    /\ out = <<>>
    /\ ein = 0
    /\ eBs = ZeroBs
    /\ ei = 0
    /\ epc = "start"
    /\ nvalue = -1
    /\ eerr = ""
    /\ packAt = {}
    /\ frames = <<>>



\* ------------------------------------------------------------ the stream in transit
\* what an output buffer holds before decodeArray writes to it
Junk == <<57005, 48879>>
BadWidths == {33, 255}
BadPadding == {ZeroWord, U32(CookiePadderValue + 1)}

\* word w with byte number b (0: the lowest) set to v
SetByte(w, b, v) ==
    CASE b = 0 -> <<w[1], (w[2] \div 256) * 256 + v>>
      [] b = 1 -> <<w[1], v * 256 + (w[2] % 256)>>
      [] b = 2 -> <<(w[1] \div 256) * 256 + v, w[2]>>
      [] OTHER -> <<v * 256 + (w[1] % 256), w[2]>>

\* the padding words of the encoded stream lie between the length word and
\* the first header
PaddingAt == 2 .. frames[1].hdr

Handover(stream, ia, oa, what) ==
    /\ epc = "done"
    /\ dpc = "idle"
    /\ din' = stream
    /\ ibase' = ia
    /\ dobase' = oa
    /\ dout' = [i \in 1 .. length |-> Junk]
    /\ dpc' = "start"
    /\ damage' = what
    /\ UNCHANGED <<dcur, dlen, dpos, dBs, di, dnvalue, dret, derr, calls>>
    /\ UNCHANGED encVars

\* the stream reaches the decoder as written, at the alignment it was
\* written at or one word off
Deliver ==
    \E ia \in {obase, (obase + 1) % 4}, oa \in 0 .. 1 :
        /\ ia # obase => length <= MaxMiniBlocks * MiniBlockSize
        /\ Handover(out, ia, oa, [kind |-> "none"])

\* one padding word is replaced on the way
DeliverBadPadding ==
    /\ epc = "done"
    /\ \E pos \in PaddingAt, v \in BadPadding, oa \in 0 .. 1 :
           Handover([out EXCEPT ![pos] = v], obase, oa,
                    [kind |-> "padding", pos |-> pos])

\* one width byte of the first header is replaced on the way: that of the
\* first miniblock, of the last present one or of the sixteenth
DeliverBadWidth ==
    /\ epc = "done"
    /\ length <= MaxMiniBlocks * MiniBlockSize
    /\ \E f \in {1}, v \in BadWidths :
           \E i \in {0, frames[f].n - 1, HowManyMiniBlocks - 1} :
               LET pos == frames[f].hdr + (i \div 4) + 1
               IN Handover([out EXCEPT ![pos] = SetByte(out[pos], 3 - (i % 4), v)],
                           obase, 0,
                           [kind |-> "width", frame |-> f, i |-> i, width |-> v])

\* the widths of a header word read lowest byte first
HeaderWidths_LittleEndian(s, from) ==
    [i \in 1 .. HowManyMiniBlocks |->
        LET w == s[from + (i - 1) \div 4 + 1]
        IN U8(Shr(w, 8 * ((i - 1) % 4)))]

\* ------------------------------------------------------------ decodeArray
\* Bs[0 + 4 * i] = static_cast<uint8_t>(in[0] >> 24), ... for the four header
\* words after s[from]
HeaderWidths(s, from) ==
    [i \in 1 .. HowManyMiniBlocks |->
        LET w == s[from + (i - 1) \div 4 + 1]
        IN U8(Shr(w, 24 - 8 * ((i - 1) % 4)))]

\* what SIMD_fastunpack_32 may leave in the 128 output words `old`: the
\* kernel is defined for widths 0 .. 32 only; for another width any result the
\* build produces is possible, here: nothing written, or zeros
Unpacked(s, from, b, old) ==
    IF b <= 32 THEN {SIMD_fastunpack_32(s, from, b)}
    ELSE {old, [t \in 1 .. MiniBlockSize |-> ZeroWord]}

\* buffer d with the 128 words after d[at] replaced by m
Store(d, at, m) ==
    [t \in 1 .. Len(d) |->
        IF t > at /\ t <= at + MiniBlockSize THEN m[t - at] ELSE d[t]]

FullBlocksEnd == (dlen \div (HowManyMiniBlocks * MiniBlockSize))
                    * HowManyMiniBlocks * MiniBlockSize

\* actuallength = *in++, then the output pointer is found misaligned
DecBadAlign ==
    /\ dpc = "start"
    /\ needPaddingTo128Bits(dobase)
    /\ dlen' = ToNat(din[1])
    /\ dcur' = 1
    /\ dpc' = "failed"
    /\ derr' = "BadOutputAlignment"
    /\ UNCHANGED <<din, ibase, dobase, dout, dpos, dBs, di, dnvalue, dret, calls, damage>>
    /\ UNCHANGED encVars

\* decodeArray without the test of the output pointer
DecStart_NoAlignCheck ==
    /\ dpc = "start"
    /\ dlen' = ToNat(din[1])
    /\ dcur' = 1
    /\ dpc' = IF needPaddingTo128Bits(ibase + 1) THEN "pad" ELSE "blocks"
    /\ UNCHANGED <<din, ibase, dobase, dout, dpos, dBs, di, dnvalue, dret, derr, calls, damage>>
    /\ UNCHANGED encVars

\* actuallength = *in++
DecStart ==
    /\ dpc = "start"
    /\ ~needPaddingTo128Bits(dobase)
    /\ dlen' = ToNat(din[1])
    /\ dcur' = 1
    /\ dpc' = IF needPaddingTo128Bits(ibase + 1) THEN "pad" ELSE "blocks"
    /\ UNCHANGED <<din, ibase, dobase, dout, dpos, dBs, di, dnvalue, dret, derr, calls, damage>>
    /\ UNCHANGED encVars

\* the padding loop without the test of the padding word
DecPad_NoCheck ==
    /\ dpc = "pad"
    /\ dcur < Len(din)
    /\ dcur' = dcur + 1
    /\ dpc' = IF needPaddingTo128Bits(ibase + dcur + 1) THEN "pad" ELSE "blocks"
    /\ UNCHANGED <<din, ibase, dobase, dlen, dout, dpos, dBs, di, dnvalue, dret, derr, calls, damage>>
    /\ UNCHANGED encVars

\* while (needPaddingTo128Bits(in)): the word is CookiePadder, ++in
DecPad ==
    /\ dpc = "pad"
    /\ dcur < Len(din)
    /\ din[dcur + 1] = CookiePadder
    /\ dcur' = dcur + 1
    /\ dpc' = IF needPaddingTo128Bits(ibase + dcur + 1) THEN "pad" ELSE "blocks"
    /\ UNCHANGED <<din, ibase, dobase, dlen, dout, dpos, dBs, di, dnvalue, dret, derr, calls, damage>>
    /\ UNCHANGED encVars

\* while (needPaddingTo128Bits(in)): the word is not CookiePadder, throw
DecPadCorrupt ==
    /\ dpc = "pad"
    /\ dcur < Len(din)
    /\ din[dcur + 1] # CookiePadder
    /\ dpc' = "failed"
    /\ derr' = "StreamCorrupt"
    /\ UNCHANGED <<din, ibase, dobase, dcur, dlen, dout, dpos, dBs, di, dnvalue, dret, calls, damage>>
    /\ UNCHANGED encVars

\* a full block: the four header words give the sixteen widths
DecHeader ==
    /\ dpc = "blocks"
    /\ dpos < FullBlocksEnd
    /\ dcur + 4 <= Len(din)
    /\ dBs' = HeaderWidths(din, dcur)
    /\ dcur' = dcur + 4
    /\ di' = 0
    /\ dpc' = "unpack"
    /\ UNCHANGED <<din, ibase, dobase, dlen, dout, dpos, dnvalue, dret, derr, calls, damage>>
    /\ UNCHANGED encVars

\* the cursor advanced by one word per bit of width
DecAdvance_PerWord(b) == b

\* in += MiniBlockSize / 32 * Bs[i]
DecAdvance(b) == (MiniBlockSize \div 32) * b

\* one turn of an unpack loop, of n turns in all; `next` is where decodeArray
\* goes after the last
UnpackTurn(n, next) ==
    LET b == dBs[di + 1]
        at == dpos + di * MiniBlockSize
    IN /\ b <= 32 => dcur + DecAdvance(b) <= Len(din)
       /\ \E m \in Unpacked(din, dcur, b, [t \in 1 .. MiniBlockSize |-> dout[at + t]]) :
              dout' = Store(dout, at, m)
       /\ calls' = calls \cup {b}
       /\ dcur' = dcur + DecAdvance(b)
       /\ IF di + 1 < n
          THEN /\ di' = di + 1
               /\ UNCHANGED <<dpos, dpc>>
          ELSE /\ di' = 0
               /\ dpos' = dpos + n * MiniBlockSize
               /\ dpc' = next
       /\ UNCHANGED <<din, ibase, dobase, dlen, dBs, dnvalue, dret, derr, damage>>
       /\ UNCHANGED encVars

\* one turn of the unpack loop of a full block
DecUnpack ==
    /\ dpc = "unpack"
    /\ UnpackTurn(HowManyMiniBlocks, "blocks")

\* the trailing partial block: four header words, howmany widths used
DecTailHeader ==
    /\ dpc = "blocks"
    /\ ~(dpos < FullBlocksEnd)
    /\ dpos < dlen
    /\ dcur + 4 <= Len(din)
    /\ dBs' = HeaderWidths(din, dcur)
    /\ dcur' = dcur + 4
    /\ di' = 0
    /\ dpc' = IF (dlen - dpos) \div MiniBlockSize > 0 THEN "tailunpack" ELSE "ret"
    /\ UNCHANGED <<din, ibase, dobase, dlen, dout, dpos, dnvalue, dret, derr, calls, damage>>
    /\ UNCHANGED encVars

\* one turn of the unpack loop of the partial block
DecTailUnpack ==
    /\ dpc = "tailunpack"
    /\ UnpackTurn((dlen - dpos) \div MiniBlockSize, "ret")

\* nvalue = out - initout; return in
DecReturn ==
    /\ \/ dpc = "ret"
       \/ /\ dpc = "blocks"
          /\ ~(dpos < FullBlocksEnd)
          /\ ~(dpos < dlen)
    /\ dnvalue' = dpos
    /\ dret' = dcur
    /\ dpc' = "done"
    /\ UNCHANGED <<din, ibase, dobase, dcur, dlen, dout, dpos, dBs, di, derr, calls, damage>>
    /\ UNCHANGED encVars

\* the next read lies past the end of the stream the decoder was given: the
\* behaviour is undefined, and nothing is said about what follows
DecOutOfBounds ==
    /\ \/ dpc = "pad" /\ ~(dcur < Len(din))
       \/ dpc = "blocks" /\ dpos < dlen /\ ~(dcur + 4 <= Len(din))
       \/ /\ dpc \in {"unpack", "tailunpack"}
          /\ dBs[di + 1] <= 32
          /\ ~(dcur + DecAdvance(dBs[di + 1]) <= Len(din))
    /\ dpc' = "oob"
    /\ UNCHANGED <<din, ibase, dobase, dcur, dlen, dout, dpos, dBs, di, dnvalue, dret, derr, calls, damage>>
    /\ UNCHANGED encVars

\* ------------------------------------------------------------ the system
Init ==
    /\ EncInit
    /\ din = <<>>
    /\ ibase = 0
    /\ dobase = 0
    /\ dcur = 0
    /\ dlen = 0
    /\ dout = <<>>
    /\ dpos = 0
    /\ dBs = ZeroBs
    /\ di = 0
    /\ dpc = "idle"
    /\ dnvalue = -1
    /\ dret = -1
    /\ derr = ""
    /\ calls = {}
    /\ damage = [kind |-> "none"]

Next ==
    \/ EncReject \/ EncStart \/ EncPad \/ EncHeader \/ EncPack
    \/ EncTailHeader \/ EncTailPack \/ EncReturn
    \/ Deliver \/ DeliverBadPadding \/ DeliverBadWidth
    \/ DecBadAlign \/ DecStart \/ DecPad \/ DecPadCorrupt
    \/ DecHeader \/ DecUnpack \/ DecTailHeader \/ DecTailUnpack
    \/ DecReturn \/ DecOutOfBounds

Spec == Init /\ [][Next]_vars


\* ------------------------------------------------------------ properties
\* the stream reached the decoder as written, at the alignment it was written
\* at, and the decoder's output pointer is aligned
Intact ==
    /\ dpc # "idle"
    /\ damage.kind = "none"
    /\ ibase = obase
    /\ ~needPaddingTo128Bits(dobase)

\* word w holds no bit at or above bit b
Fits(w, b) ==
    \/ b >= 32
    \/ b >= 16 /\ w[1] < Pow2(b - 16)
    \/ b < 16 /\ w[1] = 0 /\ w[2] < Pow2(b)

\* b is the bit length of the largest of the 128 words after x[from]
IsBitLength(from, b) ==
    /\ b \in 0 .. 32
    /\ \A t \in 1 .. MiniBlockSize : Fits(x[from + t], b)
    /\ b = 0 \/ \E t \in 1 .. MiniBlockSize : ~Fits(x[from + t], b - 1)

\* byte j (0: the highest) of the header word k of the frame at offset hdr
HeaderByte(s, hdr, k, j) == (ToNat(s[hdr + k + 1]) \div Pow2(24 - 8 * j)) % 256

\* C1: decodeArray, run on the stream encodeArray produced for x and read at
\* the alignment it was written at into an aligned output, neither fails nor
\* leaves the stream, and ends with the output equal to x and nvalue = L.
C1_RoundTrip ==
    Intact =>
        /\ dpc \notin {"failed", "oob"}
        /\ dpc = "done" => dout = x /\ dnvalue = length

C1_Witness ==
    /\ Intact
    /\ obase = 0
    /\ dpc = "done"
    /\ Len(frames) = 2
    /\ dout = x
    /\ \E i \in 1 .. length : x[i][1] > 0 /\ x[i] # Ones(32)

\* C2: with an aligned output buffer, every offset at which the encoder
\* called the pack kernel is a multiple of 4 words, and so is the offset of
\* each frame's first payload word.
C2_PayloadAligned ==
    ~needPaddingTo128Bits(obase) =>
        /\ \A o \in packAt : o % 4 = 0
        /\ \A f \in 1 .. Len(frames) : (frames[f].hdr + HowManyMiniBlocks \div 4) % 4 = 0

C2_Witness ==
    /\ obase = 0
    /\ epc = "done"
    /\ Len(frames) = 2
    /\ Cardinality(packAt) > HowManyMiniBlocks
    /\ \E o \in packAt : o > BlockWords

\* C3: the four header words of a frame just written carry, as
\* (B[4k]<<24)|(B[4k+1]<<16)|(B[4k+2]<<8)|B[4k+3], for each present miniblock
\* exactly the bit length of its largest value, and 0 for each absent one.
C3_WidthMinimal ==
    (epc \in {"pack", "tailpack", "ret"} /\ ei = 0 /\ dpc = "idle" /\ frames # <<>>) =>
        LET fr == frames[Len(frames)]
        IN \A i \in 0 .. HowManyMiniBlocks - 1 :
               LET b == HeaderByte(out, fr.hdr, i \div 4, i % 4)
               IN IF i < fr.n
                  THEN IsBitLength(fr.first + i * MiniBlockSize, b)
                  ELSE b = 0

C3_Witness ==
    /\ epc = "tailpack"
    /\ ei = 0
    /\ Len(frames) = 2
    /\ HeaderByte(out, frames[1].hdr, 0, 0) \in 1 .. 31
    /\ HeaderByte(out, frames[1].hdr, 0, 1) # HeaderByte(out, frames[1].hdr, 0, 0)
    /\ HeaderByte(out, frames[2].hdr, 0, 0) > 0

C5_CorruptPadding ==
    (damage.kind = "padding" /\ ~needPaddingTo128Bits(dobase)) =>
        /\ dpc \in {"start", "pad", "failed"}
        /\ dpc = "pad" => dcur < damage.pos /\ damage.pos <= Len(din)
        /\ dpc = "failed" => derr = "StreamCorrupt" /\ dcur = damage.pos - 1
        /\ dnvalue = -1 /\ dret = -1

C5_Witness ==
    /\ damage.kind = "padding"
    /\ damage.pos = 4
    /\ dobase = 0
    /\ dpc = "failed"
    /\ derr = "StreamCorrupt"
    /\ dcur = 3

\* C6: a header width outside 0 .. 32 that is used for a miniblock puts the
\* decoder into the error state: the unpack kernel is never called with such a
\* width, and the decoder is never in an unpack loop with one ahead of it.
C6_WidthRejected ==
    /\ \A b \in calls : b <= 32
    /\ dpc = "unpack" =>
           \A i \in di .. HowManyMiniBlocks - 1 : dBs[i + 1] <= 32
    /\ dpc = "tailunpack" =>
           \A i \in di .. (dlen - dpos) \div MiniBlockSize - 1 : dBs[i + 1] <= 32

\* C7: the nvalue encodeArray reports lies between 1 + (L/2048)*4 and
\* 1 + 3 + (L/2048)*(4 + 16*128) + (4 + 16*128).
C7_SizeBounds ==
    epc = "done" =>
        LET q == length \div BlockWords
            frame == HowManyMiniBlocks \div 4 + HowManyMiniBlocks * MiniBlockSize
        IN /\ 1 + q * (HowManyMiniBlocks \div 4) <= nvalue
           /\ nvalue <= 1 + 3 + q * frame + frame

C7_Witness ==
    /\ epc = "done"
    /\ length > BlockWords
    /\ nvalue > length
    /\ nvalue = Len(out)

\* C8: the first word of the encoded stream is the input length L.
C8_LengthPrefix ==
    out # <<>> => out[1][1] * Half + out[1][2] = length

C8_Witness ==
    /\ epc = "done"
    /\ length = MaxMiniBlocks * MiniBlockSize
    /\ out[1][1] * Half + out[1][2] = length
    /\ nvalue # length

\* C9: on an intact stream decodeArray ends with nvalue = L and with its
\* cursor at the end of the stream, having consumed the nvalue words the
\* encoder reported: the length word, the padding words, four header words
\* per frame and 4 * B[i] payload words per present miniblock.
RECURSIVE PayloadSum(_, _, _)
PayloadSum(s, f, i) ==
    IF f > Len(frames) THEN 0
    ELSE IF i >= frames[f].n THEN PayloadSum(s, f + 1, 0)
    ELSE 4 * HeaderByte(s, frames[f].hdr, i \div 4, i % 4) + PayloadSum(s, f, i + 1)

C9_Framing ==
    (Intact /\ dpc = "done") =>
        /\ dnvalue = length
        /\ dret = nvalue
        /\ dret = Len(din)
        /\ dret = 1 + (frames[1].hdr - 1) + 4 * Len(frames) + PayloadSum(din, 1, 0)

C9_Witness ==
    /\ Intact
    /\ dpc = "done"
    /\ Len(frames) = 2
    /\ frames[1].hdr > 1
    /\ PayloadSum(din, 1, 0) > 0
    /\ dret = nvalue

\* C10: with a misaligned output pointer decodeArray fails with
\* BadOutputAlignment right after reading the length word: it has read
\* nothing else and written nothing, whether or not a padding word is corrupt.
C10_BadOutputAlignment ==
    (dpc # "idle" /\ needPaddingTo128Bits(dobase)) =>
        /\ dpc \in {"start", "failed"}
        /\ dpc = "failed" => derr = "BadOutputAlignment" /\ dcur = 1
        /\ dout = [i \in 1 .. length |-> Junk]

C10_Witness ==
    /\ dpc = "failed"
    /\ derr = "BadOutputAlignment"
    /\ damage.kind = "padding"
    /\ dout = [i \in 1 .. length |-> Junk]
    /\ length > 0

=============================================================================
